---- MODULE Spec2Model ----
(***************************************************************************)
(* State-machine model of src/index.js: the bounded-concurrency batch      *)
(* runner promiseEach and the two-stage pipeline downloadPackages          *)
(* (scrapeMostDepended, then downloadAndExtractPackage).                   *)
(*                                                                         *)
(* JavaScript values are records of one shape, so that any two of them     *)
(* can be compared:                                                        *)
(*   [t |-> "string" | "number" | "array" | "undefined", s, n, e]          *)
(* A JavaScript array is also handled unwrapped, as the sequence of its    *)
(* elements, wherever the code knows it holds an array.                    *)
(***************************************************************************)
EXTENDS Integers, Sequences, FiniteSets, TLC

VARIABLES
    parameters,     \* promiseEach: the caller's array, spliced in place
    maxConcurrent,  \* promiseEach: the argument, [given, n]
    func,           \* promiseEach: which promise-returning function is applied
    calls,          \* every invocation of func so far, in start order
    depth,          \* number of promiseEach activations so far (chunk number)
    frames,         \* flatResults of the activations waiting on their recursive call
    run,            \* state of the promise promiseEach returned
    result,         \* its value once resolved
    error,          \* its reason once rejected
    input,          \* the array as it was handed to promiseEach (history)
    mcArg,          \* maxConcurrent as it was handed to promiseEach (history)
    order,          \* indices of calls in the order their promises settled (history)
    count,          \* downloadPackages: the count argument
    chain,          \* downloadPackages: position in the promise chain of lines 176-182
    thrown,         \* downloadPackages: the error the success callback threw
    listing,        \* downloadPackages: the array the listing stage resolved to (history)
    cb,             \* every invocation of callback so far, by its argument
    crashed         \* an exception escaped an event handler (uncaught)

vars == <<parameters, maxConcurrent, func, calls, depth, frames, run, result,
          error, input, mcArg, order, count, chain, thrown, listing, cb, crashed>>

runVars == <<parameters, maxConcurrent, func, calls, depth, frames, run, result,
             error, input, mcArg, order>>

pipeVars == <<count, chain, thrown, listing, cb>>

\* ------------------------------------------------------------------ bounds

MaxInputs == 4      \* longest input array of a promiseEach run
MaxDepth == 18      \* activations of promiseEach explored in one run
MaxCount == 120     \* largest count for which the offsets are generated

\* ------------------------------------------------------ program constants

PageSize == 36          \* i += 36
StageConcurrency == 3   \* promiseEach(..., 3)

\* ------------------------------------------------------- JavaScript values

Undefined == [t |-> "undefined", s |-> "", n |-> 0, e |-> <<>>]
Str(x) == [t |-> "string", s |-> x, n |-> 0, e |-> <<>>]
Num(x) == [t |-> "number", s |-> "", n |-> x, e |-> <<>>]
Arr(xs) == [t |-> "array", s |-> "", n |-> 0, e |-> xs]

IsArray(v) == v.t = "array"

Min(a, b) == IF a < b THEN a ELSE b
Max(a, b) == IF a > b THEN a ELSE b

SubSeqFrom(xs, k) == SubSeq(xs, k, Len(xs))

\* splice that bites one element more than asked
Splice0Greedy(arr, deleteCount) ==
    LET k == Min(Max(deleteCount + 1, 0), Len(arr))
    IN [removed |-> SubSeq(arr, 1, k), rest |-> SubSeq(arr, k + 1, Len(arr))]

\* Array.prototype.slice(0, deleteCount): the prefix, the array left whole
Slice0(arr, deleteCount) ==
    LET k == Min(Max(deleteCount, 0), Len(arr))
    IN [removed |-> SubSeq(arr, 1, k), rest |-> arr]

\* Array.prototype.splice(0, deleteCount): the deleted prefix and what is left.
\* deleteCount is clamped to 0..length.
Splice0(arr, deleteCount) ==
    LET k == Min(Max(deleteCount, 0), Len(arr))
    IN [removed |-> SubSeq(arr, 1, k), rest |-> SubSeqFrom(arr, k + 1)]

\* Array.prototype.concat(...args): an argument that is an array contributes
\* its elements, any other argument contributes itself; one level only.
RECURSIVE ArrayConcat(_, _)
ArrayConcat(arr, args) ==
    IF args = <<>> THEN arr
    ELSE ArrayConcat(arr \o (IF IsArray(Head(args)) THEN Head(args).e ELSE <<Head(args)>>),
                     Tail(args))

\* [].concat(results): the results of the chunk, not flattened
FlatResultsNoApply(results) == ArrayConcat(<<>>, <<Arr(results)>>)

\* [].concat.apply([], results)
FlatResults(results) == ArrayConcat(<<>>, results)

\* if(!maxConcurrent) maxConcurrent = 1
DefaultMaxConcurrent(mc) ==
    IF ~mc.given \/ mc.n = 0 THEN [given |-> TRUE, n |-> 1] ELSE mc

\* func(param) for every element, a tuple included
SingleArg(param) == <<param>>

\* the arguments func receives for one element of the chunk
ApplyArgs(param) == IF IsArray(param) THEN param.e ELSE <<param>>

\* parameters.length === 1
BaseCaseOneLeft(ps) == Len(ps) = 1

\* parameters.length === 0
BaseCase(ps) == Len(ps) = 0

\* ------------------------------------------------------ JavaScript strings

\* String.prototype.startsWith
StartsWith(str, prefix) ==
    Len(str) >= Len(prefix) /\ SubSeq(str, 1, Len(prefix)) = prefix

\* String.prototype.indexOf(ch) for a one-character ch, searching from the
\* 0-based position from: the 0-based position of the first occurrence, or -1
RECURSIVE IndexOfFrom(_, _, _)
IndexOfFrom(str, ch, from) ==
    IF from >= Len(str) THEN -1
    ELSE IF SubSeq(str, from + 1, from + 1) = ch THEN from
    ELSE IndexOfFrom(str, ch, from + 1)

\* String.prototype.lastIndexOf(ch): the position of the last occurrence
RECURSIVE LastIndexOfFrom(_, _, _)
LastIndexOfFrom(str, ch, from) ==
    IF from < 0 THEN -1
    ELSE IF SubSeq(str, from + 1, from + 1) = ch THEN from
    ELSE LastIndexOfFrom(str, ch, from - 1)

LastIndexOf(str, ch) == LastIndexOfFrom(str, ch, Len(str) - 1)

IndexOf(str, ch) == IndexOfFrom(str, ch, 0)

\* String.prototype.slice(from, to) and slice(from), 0-based, for from, to >= 0
StrSlice(str, from, to) == SubSeq(str, from + 1, Min(to, Len(str)))
StrSliceFrom(str, from) == SubSeq(str, from + 1, Len(str))

\* the characters encodeURIComponent leaves as they are (the apostrophe,
\* also left as it is, is not written here)
Unreserved == "ABCDEFGHIJKLMNOPQRSTUVWXYZabcdefghijklmnopqrstuvwxyz0123456789-_.!~*()"

\* other printable ASCII characters, and their escapes
Reserved == <<" ", "#", "$", "%", "&", "+", ",", "/", ":", ";", "<", "=", ">", "?", "@",
              "[", "]", "^", "{", "|", "}">>
Escapes == <<"%20", "%23", "%24", "%25", "%26", "%2B", "%2C", "%2F", "%3A", "%3B", "%3C",
             "%3D", "%3E", "%3F", "%40", "%5B", "%5D", "%5E", "%7B", "%7C", "%7D">>

EscapeChar(ch) ==
    IF IndexOf(Unreserved, ch) >= 0 THEN ch
    ELSE Escapes[CHOOSE k \in 1..Len(Reserved) : Reserved[k] = ch]

\* encodeURIComponent
RECURSIVE EncodeURIComponent(_)
EncodeURIComponent(str) ==
    IF str = "" THEN ""
    ELSE EscapeChar(SubSeq(str, 1, 1)) \o EncodeURIComponent(SubSeq(str, 2, Len(str)))

\* ------------------------------------------------------------ invocations

\* the k-th argument of a call as it appears in a template literal
ArgText(args, k) ==
    IF k > Len(args) THEN "undefined"
    ELSE IF args[k].t = "number" THEN ToString(args[k].n)
    ELSE args[k].s

\* Lines 123-140: the URL downloadAndExtractPackage(pkg, version) requests.
DownloadUrl(pkg, version) ==
    LET scoped == StartsWith(pkg, "@")
        index == IndexOf(pkg, "/") + 1
        org == IF scoped THEN StrSlice(pkg, 0, index) ELSE ""
        name == IF scoped THEN StrSliceFrom(pkg, index) ELSE pkg
    IN "https://registry.npmjs.org/" \o org \o name \o "/-/" \o name \o "-" \o version \o ".tgz"

\* Lines 77-83: the options scrapeMostDepended(offset) requests with
ListingHostname == "www.npmjs.com"
ListingPath(offset) == "/browse/depended?offset=" \o offset
ListingUrl(offset) == ListingHostname \o ListingPath(offset)

\* what the invocation asks httpsGetAsync for
RequestTarget(fn, args) ==
    IF fn = "downloadAndExtractPackage" THEN DownloadUrl(ArgText(args, 1), ArgText(args, 2))
    ELSE IF fn = "scrapeMostDepended" THEN ListingUrl(ArgText(args, 1))
    ELSE ""

\* One invocation of func. phase: "pending" (a transform at work), "request"
\* (httpsGetAsync not answered), "stream" (the response is being piped),
\* "unzipEnded" (gunzip emitted 'end', the extractor is still at work),
\* "unzipFailed" (gunzip emitted 'error': the extractor is never ended and
\* stays open), "ended" (nothing more will happen), "lost" (the request
\* failed without a response, so httpsGetAsync never settles). wrote: the archive entries extracted so far, each with the
\* path it was written to.
NewCall(fn, param, d) ==
    [fn |-> fn, args |-> ApplyArgs(param), chunk |-> d,
     url |-> RequestTarget(fn, ApplyArgs(param)),
     phase |-> IF fn = "transform" THEN "pending" ELSE "request",
     state |-> "pending", value |-> Undefined, err |-> "", wrote |-> {}]

\* started and not yet settled
InFlight(c) == c.state = "pending"

ChunkCalls(d) == SelectSeq(calls, LAMBDA c : c.chunk = d)

ChunkValues(d) == [k \in 1..Len(ChunkCalls(d)) |-> ChunkCalls(d)[k].value]

\* otherResults.concat(flatResults)
RECURSIVE UnwindSwapped(_, _)
UnwindSwapped(fs, otherResults) ==
    IF fs = <<>> THEN otherResults
    ELSE UnwindSwapped(SubSeq(fs, 1, Len(fs) - 1),
                       ArrayConcat(otherResults, <<Arr(fs[Len(fs)])>>))

\* flatResults.concat(otherResults), from the innermost activation outwards
RECURSIVE Unwind(_, _)
Unwind(fs, otherResults) ==
    IF fs = <<>> THEN otherResults
    ELSE Unwind(SubSeq(fs, 1, Len(fs) - 1),
                ArrayConcat(fs[Len(fs)], <<Arr(otherResults)>>))

\* a join whose reason is overwritten by every rejection
PromiseAllRejectLast(st, cur, e) == [run |-> "rejected", error |-> e]

\* Promise.all: the first rejection settles it, later ones are ignored
PromiseAllReject(st, cur, e) ==
    IF st = "pending" THEN [run |-> "rejected", error |-> e]
    ELSE [run |-> st, error |-> cur]

\* Lines 36-47 of one activation of promiseEach(ps, fn, mc) at depth d, with
\* earlier the invocations already made: default, splice, start the chunk.
promiseEach(ps, fn, mc, d, earlier) ==
    LET m == DefaultMaxConcurrent(mc)
        sp == Splice0(ps, m.n)
    IN /\ maxConcurrent' = m
       /\ parameters' = sp.rest
       /\ func' = fn
       /\ depth' = d
       /\ calls' = earlier \o [k \in 1..Len(sp.removed) |-> NewCall(fn, sp.removed[k], d)]

\* ------------------------------------------------------------ environment

\* the k-th input: a plain value at odd k, a tuple of two arguments at even k
ParamAt(k) == IF k % 2 = 1 THEN Num(k) ELSE Arr(<<Str("n"), Num(k)>>)

InputSeqs == {[k \in 1..n |-> ParamAt(k)] : n \in 0..MaxInputs}

McArgs == {[given |-> FALSE, n |-> 0]} \cup {[given |-> TRUE, n |-> k] : k \in -1..MaxInputs}

ResultVals == {Str("a"),
               Arr(<<>>),
               Arr(<<Str("b"), Arr(<<Str("c")>>)>>)}

Errors == {"e1", "e2"}

\* ------------------------------------------------- promiseEach, lines 35-69

InitPipeIdle ==
    /\ count = 0
    /\ chain = "none"
    /\ thrown = ""
    /\ listing = <<>>
    /\ cb = <<>>
    /\ crashed = FALSE

\* A caller is about to run promiseEach(input, transform, maxConcurrent).
Init ==
    /\ input \in InputSeqs
    /\ parameters = input
    /\ maxConcurrent \in McArgs
    /\ mcArg = maxConcurrent
    /\ order = <<>>
    /\ func = "transform"
    /\ calls = <<>>
    /\ depth = 0
    /\ frames = <<>>
    /\ run = "idle"
    /\ result = <<>>
    /\ error = ""
    /\ InitPipeIdle

\* The caller's call: lines 36-47 of the outermost activation.
Call ==
    /\ chain = "none"
    /\ run = "idle"
    /\ promiseEach(parameters, "transform", maxConcurrent, 1, <<>>)
    /\ run' = "pending"
    /\ UNCHANGED <<frames, result, error, input, mcArg, order, pipeVars, crashed>>

\* the settlement order, observed for a promiseEach run studied on its own
Settled(i) ==
    IF chain = "none" /\ calls[i].state = "pending" THEN Append(order, i) ELSE order

\* a resolve(v) that also takes over a promise that has already rejected
SettleResolveOver(i, v, ph) ==
    /\ calls' = [calls EXCEPT ![i].state = "resolved", ![i].value = v, ![i].phase = ph]
    /\ order' = Settled(i)
    /\ UNCHANGED <<parameters, maxConcurrent, func, depth, frames, run, result,
                   error, input, mcArg>>

\* resolve(v) on the promise of invocation i, which moves to phase ph; a
\* promise that is already settled stays as it is.
SettleResolve(i, v, ph) ==
    /\ calls' = IF calls[i].state = "pending"
                THEN [calls EXCEPT ![i].state = "resolved", ![i].value = v, ![i].phase = ph]
                ELSE [calls EXCEPT ![i].phase = ph]
    /\ order' = Settled(i)
    /\ UNCHANGED <<parameters, maxConcurrent, func, depth, frames, run, result,
                   error, input, mcArg>>

\* reject(e) on the promise of invocation i, which moves to phase ph;
\* Promise.all of its chunk rejects with the first such e, and so does every
\* activation above it.
SettleReject(i, e, ph) ==
    LET out == IF calls[i].state = "pending"
               THEN PromiseAllReject(run, error, e)
               ELSE [run |-> run, error |-> error]
    IN /\ calls' = IF calls[i].state = "pending"
                   THEN [calls EXCEPT ![i].state = "rejected", ![i].err = e, ![i].phase = ph]
                   ELSE [calls EXCEPT ![i].phase = ph]
       /\ order' = Settled(i)
       /\ run' = out.run
       /\ error' = out.error
       /\ UNCHANGED <<parameters, maxConcurrent, func, depth, frames, result, input, mcArg>>

\* The promise a transform returned resolves with v.
Resolve(i, v) ==
    /\ ~crashed
    /\ calls[i].fn = "transform"
    /\ calls[i].state = "pending"
    /\ SettleResolve(i, v, "ended")
    /\ UNCHANGED <<pipeVars, crashed>>

\* The promise a transform returned rejects with e.
Reject(i, e) ==
    /\ ~crashed
    /\ calls[i].fn = "transform"
    /\ calls[i].state = "pending"
    /\ SettleReject(i, e, "ended")
    /\ UNCHANGED <<pipeVars, crashed>>

\* a join that is satisfied by the first invocation to resolve
AnyResolved(d) == \E k \in 1..Len(calls) : calls[k].chunk = d /\ calls[k].state = "resolved"

\* Promise.all(...) has resolved: every invocation of chunk d has
AllResolved(d) == \A k \in 1..Len(calls) : calls[k].chunk = d => calls[k].state = "resolved"

\* a join that lets the run go on once every invocation of chunk d has
\* settled, resolved or rejected
JoinSettled(st, d) ==
    st # "resolved" /\ \A k \in 1..Len(calls) : calls[k].chunk = d => calls[k].state # "pending"

\* the callback of line 48 runs: the run has not settled and Promise.all
\* of chunk d has resolved
JoinResolved(st, d) == st = "pending" /\ AllResolved(d)

\* The .then callback of lines 48-68 for the current activation: flatten the
\* chunk's results; return them when the array is consumed, else call
\* promiseEach again on what is left.
ThenResults ==
    /\ ~crashed
    /\ depth >= 1
    /\ JoinResolved(run, depth)
    /\ LET flatResults == FlatResults(ChunkValues(depth))
       IN IF BaseCase(parameters)
          THEN /\ run' = "resolved"
               /\ result' = Unwind(frames, flatResults)
               /\ UNCHANGED <<parameters, maxConcurrent, func, calls, depth, frames>>
          ELSE /\ depth < MaxDepth
               /\ frames' = Append(frames, flatResults)
               /\ promiseEach(parameters, func, maxConcurrent, depth + 1, calls)
               /\ UNCHANGED <<run, result>>
    /\ UNCHANGED <<error, input, mcArg, order, pipeVars, crashed>>

Next ==
    \/ Call
    \/ \E i \in 1..Len(calls), v \in ResultVals : Resolve(i, v)
    \/ \E i \in 1..Len(calls), e \in Errors : Reject(i, e)
    \/ ThenResults

Spec == Init /\ [][Next]_vars

\* ------------------------------------------ httpsGetAsync, lines 11-22

\* options.hostname and options.path as the template literal of line 15
\* prints them: scrapeMostDepended passes an object with both, and
\* downloadAndExtractPackage a URL string, which has neither
OptionsHostname(c) ==
    IF c.fn = "scrapeMostDepended" THEN ListingHostname ELSE "undefined"

OptionsPath(c) ==
    IF c.fn = "scrapeMostDepended" THEN ListingPath(ArgText(c.args, 1)) ELSE "undefined"

\* the message of the Error the invocation c of httpsGetAsync rejects with
\* on a status other than 200
StatusError(c, status) ==
    "GET " \o OptionsHostname(c) \o OptionsPath(c) \o " returned " \o ToString(status)

Statuses == {200, 404}

\* https.get calls back with a response for request i.
HttpsResponse(i, status) ==
    /\ ~crashed
    /\ calls[i].phase = "request"
    /\ IF status # 200
       THEN SettleReject(i, StatusError(calls[i], status), "ended")
       ELSE \* resolve(response): the .then of the caller sets up the streams
            /\ calls' = [calls EXCEPT ![i].phase = "stream"]
            /\ UNCHANGED <<parameters, maxConcurrent, func, depth, frames, run,
                           result, error, input, mcArg, order>>
    /\ UNCHANGED <<pipeVars, crashed>>

\* The request fails before any response (refused, reset, DNS): the request
\* object emits 'error', for which line 13 registers no listener, so the
\* promise is never settled and the event is thrown as an uncaught exception,
\* which ends the process unless the embedding program handles it.
RequestError(i, fatal) ==
    /\ ~crashed
    /\ calls[i].phase = "request"
    /\ calls' = [calls EXCEPT ![i].phase = "lost"]
    /\ crashed' = fatal
    /\ UNCHANGED <<parameters, maxConcurrent, func, depth, frames, run, result,
                   error, input, mcArg, order, pipeVars>>

\* --------------------------------------- scrapeMostDepended, lines 75-117

\* A listing page as the gunzip stream delivers it: whether any 'data' event
\* occurs, and the anchors of class "version" in the text, in order.
Anchor(name, version) == [name |-> name, version |-> version]

NoDataBody == [data |-> FALSE, anchors |-> <<>>]
PlainBody == [data |-> TRUE, anchors |-> <<>>]
SmallBody == [data |-> TRUE,
              anchors |-> <<Anchor("lodash", "4.17.0"), Anchor("@scope/name", "1.2.3")>>]
FullBody == [data |-> TRUE,
             anchors |-> [k \in 1..PageSize |-> Anchor("pkg" \o ToString(k), "1.0." \o ToString(k))]]

Bodies == {NoDataBody, PlainBody, SmallBody, FullBody}

\* re.exec(body), match by match: [whole match, the anchor, name, version]
RegexMatches(body) ==
    [k \in 1..Len(body.anchors) |->
        <<Str("text<a>"), Str("<a>"), Str(body.anchors[k].name), Str(body.anchors[k].version)>>]

\* Array.prototype.slice(from, to)
Slice(xs, from, to) == SubSeq(xs, from + 1, Min(to, Len(xs)))

\* mostDepended after the while loop of lines 107-111
MostDepended(body) ==
    [k \in 1..Len(RegexMatches(body)) |-> Arr(Slice(RegexMatches(body)[k], 2, 4))]

\* unzip emits 'error' (either function registers reject on it). The
\* extractor an archive is piped into is not ended by it.
UnzipError(i) ==
    /\ ~crashed
    /\ calls[i].fn \in {"scrapeMostDepended", "downloadAndExtractPackage"}
    /\ calls[i].phase = "stream"
    /\ SettleReject(i, "gunzip error",
                    IF calls[i].fn = "downloadAndExtractPackage" THEN "unzipFailed" ELSE "ended")
    /\ UNCHANGED <<pipeVars, crashed>>

\* unzip emits 'end' on a listing page: lines 104-114. buffer starts out
\* undefined: with no 'data' event buffer.toString throws inside the event
\* handler, the promise stays pending and the exception is uncaught.
UnzipEnd(i, body, fatal) ==
    /\ ~crashed
    /\ calls[i].fn = "scrapeMostDepended"
    /\ calls[i].phase = "stream"
    /\ IF body.data
       THEN /\ SettleResolve(i, Arr(MostDepended(body)), "ended")
            /\ UNCHANGED crashed
       ELSE /\ calls' = [calls EXCEPT ![i].phase = "lost"]
            /\ crashed' = fatal
            /\ UNCHANGED <<parameters, maxConcurrent, func, depth, frames, run,
                           result, error, input, mcArg, order>>
    /\ UNCHANGED pipeVars

\* -------------------------------- downloadAndExtractPackage, lines 122-168

\* let folderName = encodeURIComponent(pkg)
FolderName(pkg) == EncodeURIComponent(pkg)

\* header.name.replace(/^package/, folderName), line 157
MapHeaderName(name, folderName) ==
    IF StartsWith(name, "package") THEN folderName \o StrSliceFrom(name, Len("package"))
    ELSE name

\* tar.extract('./packages', ...): where the entry named name is written
TargetPath(name) == "./packages/" \o name

\* unzip emits 'end' on an archive: no listener; the pipe ends the
\* extractor, which goes on with what it was given
UnzipEndArchive(i) ==
    /\ ~crashed
    /\ calls[i].fn = "downloadAndExtractPackage"
    /\ calls[i].phase = "stream"
    /\ calls' = [calls EXCEPT ![i].phase = "unzipEnded"]
    /\ UNCHANGED <<parameters, maxConcurrent, func, depth, frames, run, result,
                   error, input, mcArg, order, pipeVars, crashed>>

\* the extractor of invocation i is open: the response is piped into it and
\* it has not emitted 'finish'. Neither an error of gunzip nor an error of its
\* own closes it (lines 144, 161 only reject the promise).
UntarOpen(i) ==
    /\ calls[i].fn = "downloadAndExtractPackage"
    /\ calls[i].phase \in {"stream", "unzipEnded", "unzipFailed"}

\* untar extracts the entry named entry: lines 156-159 rename it, tar-fs
\* writes it under ./packages. An archive holds each name once.
UntarEntry(i, entry) ==
    /\ ~crashed
    /\ UntarOpen(i)
    /\ \A w \in calls[i].wrote : w.entry # entry
    /\ LET path == TargetPath(MapHeaderName(entry, FolderName(ArgText(calls[i].args, 1))))
       IN calls' = [calls EXCEPT ![i].wrote = @ \cup {[entry |-> entry, path |-> path]}]
    /\ UNCHANGED <<parameters, maxConcurrent, func, depth, frames, run, result,
                   error, input, mcArg, order, pipeVars, crashed>>

\* untar emits 'error': reject(err), and the extractor goes on
UntarError(i) ==
    /\ ~crashed
    /\ UntarOpen(i)
    /\ SettleReject(i, "untar error", calls[i].phase)
    /\ UNCHANGED <<pipeVars, crashed>>

\* an extraction that resolves as soon as gunzip has emitted 'end'
ResolveOnUnzipEnd(i) ==
    /\ ~crashed
    /\ calls[i].fn = "downloadAndExtractPackage"
    /\ calls[i].phase = "stream"
    /\ SettleResolve(i, calls[i].args[1], "unzipEnded")
    /\ UNCHANGED <<pipeVars, crashed>>

\* untar emits 'finish', after gunzip has ended and so ended it: resolve(pkg)
UntarFinish(i) ==
    /\ ~crashed
    /\ calls[i].fn = "downloadAndExtractPackage"
    /\ calls[i].phase = "unzipEnded"
    /\ SettleResolve(i, calls[i].args[1], "ended")
    /\ UNCHANGED <<pipeVars, crashed>>

\* ------------------------------------------ downloadPackages, lines 170-183

\* the loop with i <= count as its condition
RECURSIVE OffsetsFromInclusive(_, _)
OffsetsFromInclusive(i, n) ==
    IF i <= n THEN <<Num(i)>> \o OffsetsFromInclusive(i + PageSize, n) ELSE <<>>

\* the for loop of lines 172-174
RECURSIVE OffsetsFrom(_, _)
OffsetsFrom(i, n) ==
    IF i < n THEN <<Num(i)>> \o OffsetsFrom(i + PageSize, n) ELSE <<>>

PipeCounts == {-1, 0, 1, 2, 50}

InitPipe(counts) ==
    /\ count \in counts
    /\ chain = "start"
    /\ thrown = ""
    /\ listing = <<>>
    /\ cb = <<>>
    /\ crashed = FALSE
    /\ input = <<>>
    /\ parameters = <<>>
    /\ maxConcurrent = [given |-> TRUE, n |-> StageConcurrency]
    /\ mcArg = maxConcurrent
    /\ order = <<>>
    /\ func = "scrapeMostDepended"
    /\ calls = <<>>
    /\ depth = 0
    /\ frames = <<>>
    /\ run = "idle"
    /\ result = <<>>
    /\ error = ""

\* A caller is about to run downloadPackages(count, callback).
PipeInit == InitPipe(PipeCounts)

\* Lines 171-176: generate the offsets and start the listing stage.
DownloadPackages ==
    /\ chain = "start"
    /\ LET offsets == OffsetsFrom(0, count)
       IN /\ input' = offsets
          /\ promiseEach(offsets, "scrapeMostDepended",
                         [given |-> TRUE, n |-> StageConcurrency], 1, <<>>)
    /\ mcArg' = [given |-> TRUE, n |-> StageConcurrency]
    /\ run' = "pending"
    /\ chain' = "listing"
    /\ UNCHANGED <<frames, result, error, order, count, thrown, listing, cb, crashed>>

\* Lines 177-180: the listing stage resolved; truncate and start extraction.
ListingThen ==
    /\ ~crashed
    /\ chain = "listing"
    /\ run = "resolved"
    /\ LET toBeDownloaded == Splice0(result, count).removed
       IN /\ input' = toBeDownloaded
          /\ promiseEach(toBeDownloaded, "downloadAndExtractPackage",
                         [given |-> TRUE, n |-> StageConcurrency], 1, <<>>)
    /\ listing' = result
    /\ mcArg' = [given |-> TRUE, n |-> StageConcurrency]
    /\ run' = "pending"
    /\ result' = <<>>
    /\ frames' = <<>>
    /\ order' = <<>>
    /\ chain' = "extract"
    /\ UNCHANGED <<error, count, thrown, cb, crashed>>

\* Line 181: the extraction stage resolved; callback() is called, and an
\* exception it throws rejects the promise .then returned.
CallbackSuccess(throws) ==
    /\ ~crashed
    /\ chain = "extract"
    /\ run = "resolved"
    /\ cb' = Append(cb, Undefined)
    /\ chain' = IF throws THEN "threw" ELSE "done"
    /\ thrown' = IF throws THEN "callback threw" ELSE thrown
    /\ UNCHANGED <<runVars, count, listing, crashed>>

\* Line 182: the chain above rejected (a stage failed, or line 181 threw);
\* callback(err) is called, and an exception it throws is left unhandled.
CallbackError(throws) ==
    /\ ~crashed
    /\ \/ chain \in {"listing", "extract"} /\ run = "rejected"
       \/ chain = "threw"
    /\ cb' = Append(cb, Str(IF chain = "threw" THEN thrown ELSE error))
    /\ chain' = IF throws THEN "unhandled" ELSE "done"
    /\ UNCHANGED <<runVars, count, thrown, listing, crashed>>

\* the events of an invocation whose listing page, if it is one, has been
\* read: entries are the names the archives may hold
ExtractStep(entries) ==
    \E i \in 1..Len(calls) :
        \/ \E status \in Statuses : HttpsResponse(i, status)
        \/ \E fatal \in BOOLEAN : RequestError(i, fatal)
        \/ UnzipError(i)
        \/ UnzipEndArchive(i)
        \/ \E entry \in entries : UntarEntry(i, entry)
        \/ UntarError(i)
        \/ UntarFinish(i)

\* the names of the entries of the archives in PipeSpec
PipeEntries == {"package/index.js"}

\* the listing pages of PipeSpec: short ones, so that a run is followed to
\* its end with everything its extractions write
PipeBodies == {NoDataBody, PlainBody, SmallBody}

NetworkStep ==
    \/ \E i \in 1..Len(calls), body \in PipeBodies, fatal \in BOOLEAN : UnzipEnd(i, body, fatal)
    \/ ExtractStep(PipeEntries)

PipeNext ==
    \/ DownloadPackages
    \/ NetworkStep
    \/ ThenResults
    \/ ListingThen
    \/ \E throws \in BOOLEAN : CallbackSuccess(throws)
    \/ \E throws \in BOOLEAN : CallbackError(throws)

\* The whole pipeline, on short listing pages.
PipeSpec == PipeInit /\ [][PipeNext]_vars

\* the events of the scrapeMostDepended invocations
ListingStep ==
    \E i \in 1..Len(calls) :
        /\ calls[i].fn = "scrapeMostDepended"
        /\ \/ \E status \in Statuses : HttpsResponse(i, status)
           \/ \E fatal \in BOOLEAN : RequestError(i, fatal)
           \/ UnzipError(i)
           \/ \E body \in Bodies, fatal \in BOOLEAN : UnzipEnd(i, body, fatal)

ListingNext ==
    \/ DownloadPackages
    \/ ListingStep
    \/ ThenResults
    \/ ListingThen
    \/ \E throws \in BOOLEAN : CallbackSuccess(throws)
    \/ \E throws \in BOOLEAN : CallbackError(throws)

\* The listing stage, full pages included, up to the calls that start the
\* extraction stage; the extractions are followed in PipeSpec.
ListingSpec == PipeInit /\ [][ListingNext]_vars

\* ------------------------------------- the extraction stage and its files

ExtractAnchors == {Anchor("lodash", "4.17.0"), Anchor("@scope/name", "1.2.3")}

ArchiveAnchors == ExtractAnchors \cup
    {Anchor("@a/b/c", "2.0.0"), Anchor("package", "1.0.0"), Anchor("a@b", "0.1.0"),
     Anchor("@types/node", "8.0.0")}

\* listings of at most two entries, a repeated entry included
ExtractListings ==
    {<<>>} \cup {<<a>> : a \in ExtractAnchors} \cup {<<a, b>> : a, b \in ExtractAnchors}

ExtractBodies == {[data |-> TRUE, anchors |-> a] : a \in ExtractListings}

ExtractCounts == {1, 2}

ArchiveBodies == {[data |-> TRUE, anchors |-> <<a>>] : a \in ArchiveAnchors}

ExtractEntries == {"package/index.js", "other/index.js"}

ArchiveEntries == {"package/lib/index.js", "package", "package.json", "packages/x",
                   "other/file", "package/package/x"}

\* downloadPackages(n) with n in counts (at most one page) has fetched its
\* listing page, one of bodies: line 177 is about to run.
InitListed(counts, bodies) ==
    /\ count \in counts
    /\ \E body \in bodies :
          /\ calls = <<[NewCall("scrapeMostDepended", Num(0), 1)
                          EXCEPT !.phase = "ended", !.state = "resolved",
                                 !.value = Arr(MostDepended(body))]>>
          /\ result = Unwind(<<>>, FlatResults(<<Arr(MostDepended(body))>>))
    /\ chain = "listing"
    /\ thrown = ""
    /\ listing = <<>>
    /\ cb = <<>>
    /\ crashed = FALSE
    /\ input = OffsetsFrom(0, count)
    /\ parameters = <<>>
    /\ maxConcurrent = [given |-> TRUE, n |-> StageConcurrency]
    /\ mcArg = maxConcurrent
    /\ order = <<>>
    /\ func = "scrapeMostDepended"
    /\ depth = 1
    /\ frames = <<>>
    /\ run = "resolved"
    /\ error = ""

ExtractNext(entries) ==
    \/ ListingThen
    \/ ExtractStep(entries)
    \/ ThenResults
    \/ \E throws \in BOOLEAN : CallbackSuccess(throws)
    \/ \E throws \in BOOLEAN : CallbackError(throws)

\* The extraction stage on short listings, with the files it writes.
ExtractInit == InitListed(ExtractCounts, ExtractBodies)

ExtractSpec == ExtractInit /\ [][ExtractNext(ExtractEntries)]_vars

\* One extraction, for a range of package names and archive entries.
ArchiveInit == InitListed({1}, ArchiveBodies)

ArchiveSpec == ArchiveInit /\ [][ExtractNext(ArchiveEntries)]_vars

\* downloadPackages up to the start of the listing stage, for every count
OffsetsInit == InitPipe(-MaxCount..MaxCount)

OffsetsSpec == OffsetsInit /\ [][DownloadPackages]_vars

\* ------------------------------------------------------------ properties

\* what concat contributes for one result: its elements if it is an array
OneLevel(v) == IF v.t = "array" THEN v.e ELSE <<v>>

\* the results of the invocations k.. flattened one level, in input order
RECURSIVE ExpectedFrom(_)
ExpectedFrom(k) ==
    IF k > Len(calls) THEN <<>> ELSE OneLevel(calls[k].value) \o ExpectedFrom(k + 1)

\* every input was handed to func, in input order
OneCallPerInput ==
    /\ Len(calls) = Len(input)
    /\ \A k \in 1..Len(calls) : calls[k].args = ApplyArgs(input[k])

NumInFlight == Cardinality({i \in 1..Len(calls) : InFlight(calls[i])})

RejectedInOrder == SelectSeq(order, LAMBDA i : calls[i].state = "rejected")

GivenAtLeastOne == mcArg.given /\ mcArg.n >= 1

\* C1: for maxConcurrent >= 1 a resolved run yields, in input order, the
\* one-level flattened results of the transform applied to each input,
\* whatever the order in which the invocations completed.
C1_OutputInInputOrder ==
    (chain = "none" /\ GivenAtLeastOne /\ run = "resolved")
        => /\ OneCallPerInput
           /\ result = ExpectedFrom(1)

\* a run of two chunks whose first chunk completed back to front, with
\* different results, one of them an array that was flattened
C1_Witness ==
    /\ chain = "none" /\ run = "resolved"
    /\ mcArg = [given |-> TRUE, n |-> 2]
    /\ Len(input) = 3
    /\ order = <<2, 1, 3>>
    /\ calls[3].value = Str("a")
    /\ calls[1].value = Arr(<<Str("b"), Arr(<<Str("c")>>)>>)
    /\ calls[2].value = Str("a")
    /\ result = <<Str("b"), Arr(<<Str("c")>>), Str("a"), Str("a")>>

\* C2: with limit M >= 1 at most M invocations are started and not settled,
\* also after one of the chunk has failed.
C2_AtMostMInFlight ==
    (chain = "none" /\ GivenAtLeastOne) => NumInFlight <= mcArg.n

\* the run has failed on one invocation of a chunk of three, and the other
\* two are still pending
C2_Witness ==
    /\ chain = "none" /\ run = "rejected"
    /\ mcArg = [given |-> TRUE, n |-> 3]
    /\ NumInFlight = 2
    /\ Len(parameters) = 0

\* C3: once an invocation has rejected, the run is rejected with the reason
\* of the invocation that rejected first, and it is not resolved.
C3_FirstRejectionSurfaces ==
    (chain = "none" /\ RejectedInOrder # <<>>)
        => /\ run = "rejected"
           /\ error = calls[RejectedInOrder[1]].err

\* a second chunk in which two invocations failed with different reasons,
\* after the first chunk had produced results
C3_Witness ==
    /\ chain = "none" /\ run = "rejected"
    /\ frames # <<>> /\ frames[1] # <<>>
    /\ Len(RejectedInOrder) = 2
    /\ calls[RejectedInOrder[1]].err = "e2"
    /\ calls[RejectedInOrder[2]].err = "e1"
    /\ error = "e2"

\* C4: on an empty input the transform is never invoked and the run
\* resolves to the empty sequence, for every maxConcurrent: while pending it
\* is in its first activation, whose .then callback is ready to run, and once
\* resolved its value is the empty sequence.
C4_EmptyInput ==
    (chain = "none" /\ input = <<>>)
        => /\ calls = <<>>
           /\ run # "rejected"
           /\ (run = "resolved" => result = <<>>)
           /\ (run = "pending" => depth = 1 /\ ENABLED ThenResults)

\* the empty run has resolved, under a negative maxConcurrent
C4_Witness ==
    /\ chain = "none" /\ input = <<>> /\ run = "resolved"
    /\ result = <<>> /\ calls = <<>>
    /\ mcArg = [given |-> TRUE, n |-> -1]

\* the extraction stage has been started
Extracting == chain # "none" /\ func = "downloadAndExtractPackage"

\* C5: the listing stage resolves to its pages concatenated in ascending
\* offset order, and the pairs handed to the extraction stage (those already
\* passed to downloadAndExtractPackage, then those still waiting) are exactly
\* the first min(count, L) entries of that listing, in order.
C5_TruncatedListingIsExtractionInput ==
    /\ (chain = "listing" /\ run = "resolved")
          => /\ Len(calls) = Len(input)
             /\ \A k \in 1..Len(calls) : calls[k].args = <<Num(36 * (k - 1))>>
             /\ result = ExpectedFrom(1)
    /\ Extracting
          => /\ input = SubSeq(listing, 1, Min(count, Len(listing)))
             /\ Len(calls) + Len(parameters) = Len(input)
             /\ \A k \in 1..Len(calls) : calls[k].args = input[k].e
             /\ \A k \in 1..Len(parameters) : parameters[k] = input[Len(calls) + k]

\* count = 50 and two full pages: 72 entries were cut to 50, the first
\* three were passed to downloadAndExtractPackage and 47 are waiting
C5_Witness ==
    /\ Extracting /\ count = 50
    /\ Len(listing) = 72 /\ Len(input) = 50
    /\ input[37] = Arr(<<Str("pkg1"), Str("1.0.1")>>)
    /\ Len(calls) = 3 /\ Len(parameters) = 47
    /\ calls[3].args = <<Str("pkg3"), Str("1.0.3")>>
    /\ parameters[47] = Arr(<<Str("pkg14"), Str("1.0.14")>>)

\* C6: the offsets generated are 0, 36, 72, ... and their number k is the
\* smallest with k * 36 >= count: two offsets for count = 50, none for
\* count <= 0.
C6_OffsetsCoverCount ==
    chain = "listing"
        => /\ \A j \in 1..Len(input) : input[j] = Num(36 * (j - 1))
           /\ Len(input) * 36 >= count
           /\ \A k \in 0..(Len(input) - 1) : k * 36 < count
           /\ (count = 50 => input = <<Num(0), Num(36)>>)
           /\ (count <= 0 => input = <<>>)

\* downloadPackages(50) has generated the offsets 0 and 36 and started the
\* two listing fetches
C6_Witness ==
    /\ chain = "listing" /\ count = 50
    /\ input = <<Num(0), Num(36)>>
    /\ Len(calls) = 2 /\ calls[2].args = <<Num(36)>>

\* the promise chain of lines 176-182 has run to its end
ChainEnded == chain \in {"threw", "done", "unhandled"}

\* C7: the callback is invoked exactly once per run, whether it returns or
\* throws: without argument when both stages succeeded, else with the first
\* failure.
C7_CallbackExactlyOnce ==
    /\ Len(cb) <= 1
    /\ ChainEnded
          => /\ Len(cb) = 1
             /\ cb[1] = IF run = "resolved" THEN Undefined ELSE Str(error)

\* an invocation failed: its promise rejected, or its request failed
Failed(c) == c.state = "rejected" \/ c.phase = "lost"

CalledBackWithError == \E k \in 1..Len(cb) : cb[k].t = "string"

\* C8: once a request or a stream of the run has failed, the run does not
\* come to rest before the callback has been invoked with an error.
C8_ErrorsReachCallback ==
    (chain # "none" /\ \E i \in 1..Len(calls) : Failed(calls[i]))
        => CalledBackWithError \/ ENABLED PipeNext

\* C9: with maxConcurrent zero, negative or omitted, a run on a non-empty
\* input proceeds as with maxConcurrent = 1: each activation starts exactly
\* one transform, at most one is in flight, and the run resolves to the
\* sequential result.
C9_NonPositiveIsSequential ==
    (chain = "none" /\ (~mcArg.given \/ mcArg.n <= 0) /\ input # <<>> /\ run # "idle")
        => /\ Len(calls) = depth
           /\ NumInFlight <= 1
           /\ (run = "resolved" => OneCallPerInput /\ result = ExpectedFrom(1))

\* the number of the chunk the k-th input falls in, for chunks of m inputs
ChunkOf(k, m) == ((k - 1) \div m) + 1

\* C10: chunks are the consecutive groups of maxConcurrent inputs, and an
\* invocation of a later chunk exists only when every invocation of the
\* earlier chunks has resolved.
C10_ChunkBarrier ==
    (chain = "none" /\ DefaultMaxConcurrent(mcArg).n >= 1)
        => /\ \A k \in 1..Len(calls) :
                  calls[k].chunk = ChunkOf(k, DefaultMaxConcurrent(mcArg).n)
           /\ \A i, j \in 1..Len(calls) :
                  calls[i].chunk < calls[j].chunk => calls[i].state = "resolved"

\* the second chunk has been started after the first one, of two, completed
\* back to front
C10_Witness ==
    /\ chain = "none" /\ mcArg = [given |-> TRUE, n |-> 2]
    /\ Len(calls) = 3 /\ calls[3].chunk = 2 /\ calls[3].state = "pending"
    /\ order = <<2, 1>>

\* --------------------------------------------- the files an extraction writes

\* the callback was invoked, the first time without an error
CompletedSuccessfully == cb # <<>> /\ cb[1] = Undefined

\* no two entries of the listing l carry the same package name
DistinctNames(l) ==
    \A a, b \in 1..Len(l) : a # b => l[a].e[1] # l[b].e[1]

\* the directory directly under ./packages that holds path; "" for a file
\* written into ./packages itself
TargetDirectory(path) ==
    LET rel == StrSliceFrom(path, Len(TargetPath("")))
        k == IndexOf(rel, "/")
    IN IF k = -1 THEN "" ELSE TargetPath(StrSlice(rel, 0, k))

\* the directory the invocation c is meant to fill
OwnDirectory(c) == TargetPath(FolderName(ArgText(c.args, 1)))

\* the paths the invocation c has written
Paths(c) == {w.path : w \in c.wrote}

\* the directories created under ./packages so far
Directories ==
    {TargetDirectory(p) : p \in UNION {Paths(calls[i]) : i \in 1..Len(calls)}} \ {""}

\* C11: when downloadPackages(count) has completed successfully and the L
\* listing entries have pairwise distinct names, downloadAndExtractPackage
\* was invoked exactly min(count, L) times, once for each of the first
\* min(count, L) entries, and exactly that many distinct directories exist
\* under ./packages.
C11_OneDirectoryPerEntry ==
    (CompletedSuccessfully /\ DistinctNames(listing))
        => LET n == Min(count, Len(listing))
           IN /\ Len(calls) = n
              /\ \A k \in 1..n :
                    /\ calls[k].fn = "downloadAndExtractPackage"
                    /\ calls[k].args = listing[k].e
              /\ Cardinality(Directories) = n

\* two invocations are in flight at the same time
BothInFlight(i, j) == i # j /\ InFlight(calls[i]) /\ InFlight(calls[j])

\* every path c has written lies in the directory of its own package
WritesOwnDirectory(c) == \A p \in Paths(c) : TargetDirectory(p) = OwnDirectory(c)

\* C12: extractions in flight at the same time write pairwise disjoint sets
\* of paths, each only under ./packages/<percent-encoded name of its own
\* package>, whatever the listing (repeated names included) and whatever the
\* names of the archive entries.
C12_ConcurrentWritesDisjoint ==
    \A i, j \in 1..Len(calls) :
        (Extracting /\ BothInFlight(i, j))
            => /\ Paths(calls[i]) \cap Paths(calls[j]) = {}
               /\ WritesOwnDirectory(calls[i])
               /\ WritesOwnDirectory(calls[j])

\* ------------------------------------------------------ the download request

Registry == "https://registry.npmjs.org/"

\* the extractions that were started
Extractions == {i \in 1..Len(calls) : calls[i].fn = "downloadAndExtractPackage"}

\* position k of str holds the first "/" of str
FirstSlashAt(str, k) ==
    /\ SubSeq(str, k, k) = "/"
    /\ \A j \in 1..(k - 1) : SubSeq(str, j, j) # "/"

\* the path {org}{name}/-/{name}-{version}.tgz
RegistryPath(org, name, version) ==
    org \o name \o "/-/" \o name \o "-" \o version \o ".tgz"

\* C13: for every package name and version, the extraction requests
\* {org}{name}/-/{name}-{version}.tgz from the registry, where for a name
\* that starts with "@" org is its prefix up to and including the first "/"
\* and name is the rest, and otherwise org is empty and name is the whole
\* package name: @scope/name 1.2.3 gives @scope/name/-/name-1.2.3.tgz and
\* lodash 4.17.0 gives lodash/-/lodash-4.17.0.tgz.
C13_DownloadPath ==
    \A i \in Extractions :
        LET pkg == calls[i].args[1].s
            version == calls[i].args[2].s
        IN /\ SubSeq(pkg, 1, 1) = "@"
                => \E k \in 1..Len(pkg) :
                      /\ FirstSlashAt(pkg, k)
                      /\ calls[i].url = Registry \o
                            RegistryPath(SubSeq(pkg, 1, k), SubSeq(pkg, k + 1, Len(pkg)), version)
           /\ SubSeq(pkg, 1, 1) # "@"
                => calls[i].url = Registry \o RegistryPath("", pkg, version)
           /\ (pkg = "@scope/name" /\ version = "1.2.3")
                => calls[i].url = Registry \o "@scope/name/-/name-1.2.3.tgz"
           /\ (pkg = "lodash" /\ version = "4.17.0")
                => calls[i].url = Registry \o "lodash/-/lodash-4.17.0.tgz"

\* the registry answered the request for @a/b/c 2.0.0, a name with a second
\* "/" after the scope
C13_Witness ==
    \E i \in Extractions :
        /\ calls[i].args = <<Str("@a/b/c"), Str("2.0.0")>>
        /\ calls[i].phase = "stream"
        /\ calls[i].url = Registry \o "@a/b/c/-/b/c-2.0.0.tgz"

\* ------------------------------------------------------ the entry remapping

\* the first path segment of the entry name is exactly `package`
InWrapper(entry) == entry = "package" \/ StartsWith(entry, "package/")

\* C14: the remapping replaces the leading wrapper segment of an entry and
\* nothing else: an entry whose first path segment is exactly `package` is
\* written under ./packages/<percent-encoded package name>/ with the rest of
\* its path unchanged (package/lib/index.js of @scope/name goes to
\* ./packages/%40scope%2Fname/lib/index.js), no entry is written under a
\* literal ./packages/package/, and an entry whose first segment is not
\* exactly `package` (packages/x, package.json) keeps its name.
C14_RemapsWrapperSegmentOnly ==
    \A i \in Extractions : \A w \in calls[i].wrote :
        LET pkg == calls[i].args[1].s
        IN /\ InWrapper(w.entry)
                => w.path = "./packages/" \o EncodeURIComponent(pkg)
                                \o SubSeq(w.entry, Len("package") + 1, Len(w.entry))
           /\ (pkg = "@scope/name" /\ w.entry = "package/lib/index.js")
                => w.path = "./packages/%40scope%2Fname/lib/index.js"
           /\ ~StartsWith(w.path, "./packages/package/")
           /\ ~InWrapper(w.entry) => w.path = "./packages/" \o w.entry

\* ------------------------------------------------ promiseEach, the input array

\* C15: once an invocation of chunk N has rejected, no invocation for an
\* element of a later chunk is ever started, however the other invocations
\* of chunk N complete: every invocation made belongs to chunk N or an earlier
\* one, and the elements of the later chunks stay in the array.
C15_NoChunkAfterRejection ==
    chain = "none"
        => \A i \in 1..Len(calls) :
              calls[i].state = "rejected"
                  => /\ \A j \in 1..Len(calls) : calls[j].chunk <= calls[i].chunk
                     /\ Len(calls) + Len(parameters) = Len(input)
                     /\ ~ENABLED ThenResults

\* four inputs two at a time: the first invocation rejected, the second
\* resolved after it, and the last two inputs were never passed on
C15_Witness ==
    /\ chain = "none" /\ Len(input) = 4 /\ maxConcurrent.n = 2
    /\ Len(calls) = 2 /\ Len(parameters) = 2
    /\ calls[1].state = "rejected" /\ calls[2].state = "resolved"
    /\ order = <<1, 2>>

\* ------------------------------------------------- the stages of the pipeline

\* an extraction has been started
ExtractionStarted(cs) == \E i \in 1..Len(cs) : cs[i].fn = "downloadAndExtractPackage"

\* every scrapeMostDepended invocation of the run, one per generated offset,
\* has resolved
ListingResolved ==
    /\ chain = "listing"
    /\ Len(calls) = Len(OffsetsFrom(0, count))
    /\ \A k \in 1..Len(calls) :
          /\ calls[k].fn = "scrapeMostDepended"
          /\ calls[k].args = <<OffsetsFrom(0, count)[k]>>
          /\ calls[k].state = "resolved"

\* C16: the two stages are strictly ordered: the first extraction is started
\* by a step taken when every scrapeMostDepended invocation, for every
\* generated offset, has resolved; so when a listing fetch has failed no
\* extraction is started.
C16_StagesOrdered ==
    [][(ExtractionStarted(calls') /\ ~ExtractionStarted(calls)) => ListingResolved]_vars

\* count = 50: both listing pages, of two entries each, resolved and the
\* first three extractions have been started
C16_Witness ==
    /\ Extracting /\ count = 50 /\ Len(listing) = 4
    /\ Len(calls) = 3 /\ depth = 1
    /\ \A k \in 1..3 : calls[k].phase = "request"

\* the invocation c is still at work: its promise is pending, or one of its
\* streams has not come to its end
AtWork(c) == InFlight(c) \/ c.phase # "ended"

\* C17 as stated: when the callback is invoked, with or without an error, no
\* invocation of the run is still at work, so nothing is written under
\* ./packages after the completion signal.
C17_QuietAtCallback ==
    cb # <<>> => \A i \in 1..Len(calls) : ~AtWork(calls[i])

\* C17, amended: when the callback is invoked without an error every
\* invocation of the run has resolved and its streams have ended; when it is
\* invoked with the error of a stage, the invocations still at work are
\* invocations of the chunk in which the rejection happened.
C17_QuietAtSuccessfulCallback ==
    cb # <<>>
        => IF cb[1] = Undefined
           THEN \A i \in 1..Len(calls) : ~AtWork(calls[i]) /\ calls[i].state = "resolved"
           ELSE \A i \in 1..Len(calls) :
                   AtWork(calls[i])
                       => /\ calls[i].chunk = depth
                          /\ \E j \in 1..Len(calls) :
                                calls[j].chunk = depth /\ calls[j].state = "rejected"

\* the callback got the error of the first of three extractions, which has
\* written an entry since and whose extractor is still open, while the second
\* is still being unpacked
C17_Witness ==
    /\ Extracting /\ depth = 1 /\ Len(calls) = 3
    /\ Len(cb) = 1 /\ cb[1] = Str("untar error")
    /\ calls[1].state = "rejected" /\ calls[1].phase = "unzipEnded"
    /\ calls[1].wrote # {}
    /\ calls[2].state = "pending" /\ calls[2].phase = "stream"
    /\ calls[3].state = "resolved"

\* ----------------------------------------------- when an extraction resolves

\* the extraction i is not resolved before the extractor has finished, and
\* it is rejected exactly when it has an error
PendingUntilFinish(i) ==
    /\ calls[i].phase \in {"request", "stream", "unzipEnded", "unzipFailed"}
          => calls[i].state # "resolved"
    /\ calls[i].phase = "unzipFailed" => calls[i].state = "rejected"
    /\ calls[i].state = "resolved"
          => calls[i].phase = "ended" /\ calls[i].value = calls[i].args[1]
    /\ calls[i].err # "" <=> calls[i].state = "rejected"

\* a step resolves the extraction i only by the 'finish' of its extractor,
\* and leaves a rejected extraction as it is
SettlesOnFinish(i) ==
    /\ (calls[i].state = "pending" /\ calls'[i].state = "resolved")
          => /\ calls[i].phase = "unzipEnded"
             /\ calls'[i].phase = "ended"
             /\ calls'[i].value = calls[i].args[1]
    /\ calls[i].state = "rejected"
          => calls'[i].state = "rejected" /\ calls'[i].err = calls[i].err

\* C18: an extraction resolves, with the package name it was given, only
\* by the 'finish' of the extractor: it is not resolved while the request is
\* unanswered, while the response is piped or after gunzip has ended; and
\* once an error of gunzip or of the extractor has rejected it, it stays
\* rejected with that error, whatever event follows, a 'finish' included.
C18_ResolvesOnFinishOnly ==
    /\ [](\A i \in Extractions : PendingUntilFinish(i))
    /\ [][\A i \in Extractions : SettlesOnFinish(i)]_vars

\* the extractor of @scope/name emitted 'error', went on, wrote an entry
\* and emitted 'finish': the extraction is rejected with the error
C18_Witness ==
    \E i \in Extractions :
        /\ calls[i].args[1] = Str("@scope/name")
        /\ calls[i].phase = "ended" /\ calls[i].wrote # {}
        /\ calls[i].state = "rejected" /\ calls[i].err = "untar error"

\* the invocations of chunk d
ChunkSize(d) == Cardinality({k \in 1..Len(calls) : calls[k].chunk = d})

\* C19: promiseEach consumes the caller's array from the front: at every
\* step the elements removed (those passed to func, each once, in order)
\* followed by the elements left in the array are the original input; a
\* chunk has at most maxConcurrent elements (for a limit of at least one,
\* given or defaulted); the array is empty when the run resolves, and when
\* the run rejects it holds the elements of the chunks never started.
C19_ConsumesFromFront ==
    (chain = "none" /\ run # "idle")
        => /\ Len(calls) <= Len(input)
           /\ \A k \in 1..Len(calls) : calls[k].args = ApplyArgs(input[k])
           /\ parameters = SubSeq(input, Len(calls) + 1, Len(input))
           /\ maxConcurrent.n >= 1
                 => \A d \in 1..depth : ChunkSize(d) <= maxConcurrent.n
           /\ run = "resolved" => parameters = <<>> /\ Len(calls) = Len(input)
           /\ run = "rejected"
                 => /\ \A k \in 1..Len(calls) : calls[k].chunk <= depth
                    /\ \A k \in 1..Len(parameters) :
                          parameters[k] = input[Len(calls) + k]

\* four inputs one at a time: the second invocation rejected, the third and
\* fourth input are still in the array
C19_Witness ==
    /\ chain = "none" /\ run = "rejected"
    /\ Len(input) = 4 /\ maxConcurrent.n = 1 /\ depth = 2
    /\ calls[2].state = "rejected"
    /\ parameters = <<ParamAt(3), ParamAt(4)>>

\* ------------------------------------------------- the arguments of the stages

\* v is a pair of strings, as matches.slice(2, 4) yields
IsPair(v) == v.t = "array" /\ Len(v.e) = 2 /\ v.e[1].t = "string" /\ v.e[2].t = "string"

\* C20: an input element that is a tuple is spread into positional
\* arguments, any other element is the single argument: each offset reaches
\* scrapeMostDepended as its one argument, the listing stage resolves to the
\* (name, version) pairs of its pages (flattened one level, the pairs left
\* whole), and each pair handed on reaches downloadAndExtractPackage as
\* pkg = name, version = version.
C20_TuplesSpreadPositionally ==
    /\ (chain = "listing" /\ run # "idle")
          => /\ \A k \in 1..Len(calls) :
                   /\ input[k].t = "number"
                   /\ Len(calls[k].args) = 1 /\ calls[k].args[1] = input[k]
             /\ run = "resolved"
                   => /\ \A k \in 1..Len(result) : IsPair(result[k])
                      /\ Len(result) = Len(ExpectedFrom(1))
    /\ Extracting
          => \A k \in 1..Len(calls) :
                /\ IsPair(listing[k])
                /\ Len(calls[k].args) = 2
                /\ calls[k].args[1] = listing[k].e[1]
                /\ calls[k].args[2] = listing[k].e[2]

\* count = 2: the second pair of the page, @scope/name 1.2.3, was passed on
\* as pkg and version, and the archive is being fetched
C20_Witness ==
    /\ Extracting /\ count = 2 /\ Len(calls) = 2
    /\ listing[2] = Arr(<<Str("@scope/name"), Str("1.2.3")>>)
    /\ calls[2].args = <<Str("@scope/name"), Str("1.2.3")>>
    /\ calls[2].phase = "stream"
    /\ calls[2].url = Registry \o "@scope/name/-/name-1.2.3.tgz"

====
